---- MODULE Spec2Model ----
(***************************************************************************)
(* Model of src/logger.py: the console formatter (EnhancedFormatter), the  *)
(* archiver (archive_old_logs) and the configuration entry point           *)
(* (configure_logging), together with the parts of the host logging        *)
(* facility they drive: a logger's handler list, the log directory, the    *)
(* archive bundles and the two console streams.                            *)
(*                                                                         *)
(* configure_logging is modelled statement by statement, one action per    *)
(* statement group, so that an exception can leave the call half way and   *)
(* so that two threads can interleave.  Spec runs one call at a time (the  *)
(* single-threaded use the program is written for); SpecConc lets the      *)
(* calls of two threads interleave; SpecSan applies the sanitizer to       *)
(* every short line over a small alphabet.                                 *)
(***************************************************************************)
EXTENDS Integers, Sequences, FiniteSets

VARIABLES
    clock,          \* wall clock, in half seconds
    tty,            \* [stdout, stderr]: is the stream an interactive terminal
    handlers,       \* logger name -> logger.handlers (ordered)
    dirExists,      \* the target directory exists
    files,          \* *.log file name in the directory -> set of records in it
    archives,       \* archive name -> [entries, complete]
    emitted,        \* logger name -> what the last log call on it wrote, per sink
    nrec,           \* number of records logged so far
    accepted,       \* records handed to an attached file sink
    ncalls,         \* number of configure_logging invocations started
    last,           \* logger name -> the most recent finished call on it
    chosen,         \* invocation -> the log file it opened
    overlap,        \* pairs of invocations that were in progress together
    pc,             \* thread -> position inside configure_logging
    name,           \* thread -> argument name
    save,           \* thread -> argument save
    call,           \* thread -> number of the invocation
    snap,           \* thread -> logger.handlers[:] still to be removed
    new_log_file,   \* thread -> local new_log_file
    old_logs,       \* thread -> local old_logs of archive_old_logs
    todo,           \* thread -> old_logs not yet visited by the unlink loop
    archive_name,   \* thread -> local archive_name
    reported,       \* thread -> files whose deletion error went to sys.stderr
    result,         \* thread -> how the last call ended
    pre,            \* thread -> the directory as the glob saw it
    msg,            \* sanitizer input line
    sanitized,      \* sanitizer output line
    san_pc          \* "in" before the sanitizer ran, "out" after

globals == <<clock, tty, handlers, dirExists, files, archives, emitted, nrec,
             accepted, ncalls, last, chosen, overlap>>
locals  == <<pc, name, save, call, snap, new_log_file, old_logs, todo,
             archive_name, reported, result, pre>>
sanvars == <<msg, sanitized, san_pc>>
vars    == <<globals, locals, sanvars>>

----------------------------------------------------------------------------
(* Bounds *)
MaxClock   == 2      \* the clock runs 0 .. MaxClock half seconds
MaxCalls   == 2      \* configure_logging invocations per behaviour of Spec
MaxRecords == 1      \* log calls per behaviour
NumPre     == 1      \* *.log files that may be in the directory at start
MaxLen     == 3      \* length of the lines given to the sanitizer

Threads  == {"main", "worker"}
Main     == "main"
Loggers  == {"a", "b"}
Shared   == "a"
Calls    == 1 .. MaxCalls
NoFile   == <<>>

\* strftime with %S: the clock truncated to whole seconds
Seconds(c) == c \div 2
\* line 115: strftime("%d-%m-%Y_%H-%M-%S") + ".log"
LogName(c) == <<"log", Seconds(c)>>
\* line 73: logs_archive_<strftime('%Y%m%d_%H%M%S')>.tar.gz
ArchiveName(c) == <<"logs_archive", Seconds(c)>>
\* the k log files left by earlier runs carry earlier timestamps
PreFiles(k) == { <<"log", 0 - i>> : i \in 1 .. k }

----------------------------------------------------------------------------
(* EnhancedFormatter *)

\* EMOJI_PATTERN, lines 17-26, by code point
InEmoji(c) ==
    \/ (c >= 128512 /\ c <= 128591)      \* 1F600-1F64F
    \/ (c >= 127744 /\ c <= 128511)      \* 1F300-1F5FF
    \/ (c >= 128640 /\ c <= 128767)      \* 1F680-1F6FF
    \/ (c >= 127456 /\ c <= 127487)      \* 1F1E0-1F1FF
    \/ c = 8205                          \* 200d
    \/ c = 9167                          \* 23cf
    \/ c = 9193                          \* 23e9
    \/ (c >= 9194 /\ c <= 9197)          \* 23ea-23ed
    \/ c = 9199                          \* 23ef
    \/ (c >= 9200 /\ c <= 9203)          \* 23f0-23f3
    \/ (c >= 9632 /\ c <= 9727)          \* 25A0-25FF
    \/ (c >= 9728 /\ c <= 9983)          \* 2600-26FF
    \/ (c >= 9984 /\ c <= 10175)         \* 2700-27BF
    \/ (c >= 11008 /\ c <= 11263)        \* 2B00-2BFF
    \/ (c >= 65536 /\ c <= 1114111)      \* 10000-10ffff

Arrow == 8594                            \* "→"
ArrowText == <<45, 45, 62>>              \* "-->"
IsAscii(c) == c <= 127                   \* not (ord(c) > 0x7F)

RECURSIVE ReplaceArrow_once(_)
\* msg.replace("→", "-->", 1): only the first arrow is replaced
ReplaceArrow_once(s) ==
    IF s = <<>> THEN <<>>
    ELSE IF Head(s) = Arrow THEN ArrowText \o Tail(s)
    ELSE <<Head(s)>> \o ReplaceArrow_once(Tail(s))

RECURSIVE ReplaceArrow(_)
\* msg.replace("→", "-->")
ReplaceArrow(s) ==
    IF s = <<>> THEN <<>>
    ELSE IF Head(s) = Arrow THEN ArrowText \o ReplaceArrow(Tail(s))
    ELSE <<Head(s)>> \o ReplaceArrow(Tail(s))

NotEmoji(c) == ~InEmoji(c)
\* EMOJI_PATTERN.sub("", msg)
StripEmoji(s) == SelectSeq(s, NotEmoji)

\* _process_special_chars, lines 50-55
ProcessSpecialChars(s) ==
    LET m == ReplaceArrow(s)
    IN  IF \E i \in 1 .. Len(m) : ~IsAscii(m[i]) THEN StripEmoji(m) ELSE m

\* __init__, line 43
UseColors(tty_only) == tty.stdout \/ ~tty_only

\* the input alphabet: a, the arrow, e-acute, ZWJ, U+23EE (in the gap of the
\* 23xx ranges), U+2600, U+1F600
Alphabet == {97, 8594, 233, 8205, 9198, 9728, 128512}
Lines == UNION { [1 .. k -> Alphabet] : k \in 0 .. MaxLen }

----------------------------------------------------------------------------
(* State *)

ConsoleHandler(c) ==
    [kind |-> "console", call |-> c, file |-> NoFile,
     use_colors |-> UseColors(TRUE), orphan |-> FALSE]
FileHandler(c, f) ==
    [kind |-> "file", call |-> c, file |-> f,
     use_colors |-> FALSE, orphan |-> FALSE]

NoCall == [call |-> 0, save |-> FALSE, ok |-> FALSE, seq |-> 0]
NoPre  == [files |-> {}, archives |-> [a \in {} |-> {}]]

InitSan == msg = <<>> /\ sanitized = <<>> /\ san_pc = "in"

InitCore ==
    /\ clock = 0
    /\ handlers = [n \in Loggers |-> <<>>]
    /\ archives = [a \in {} |-> {}]
    /\ emitted = [n \in Loggers |-> <<>>]
    /\ nrec = 0
    /\ accepted = {}
    /\ ncalls = 0
    /\ last = [n \in Loggers |-> NoCall]
    /\ chosen = [c \in Calls |-> NoFile]
    /\ overlap = {}
    /\ pc = [t \in Threads |-> "idle"]
    /\ name = [t \in Threads |-> "a"]
    /\ save = [t \in Threads |-> FALSE]
    /\ call = [t \in Threads |-> 0]
    /\ snap = [t \in Threads |-> <<>>]
    /\ new_log_file = [t \in Threads |-> NoFile]
    /\ old_logs = [t \in Threads |-> {}]
    /\ todo = [t \in Threads |-> {}]
    /\ archive_name = [t \in Threads |-> NoFile]
    /\ reported = [t \in Threads |-> {}]
    /\ result = [t \in Threads |-> "none"]
    /\ pre = [t \in Threads |-> NoPre]

Init ==
    /\ InitCore
    /\ InitSan
    /\ tty \in [stdout : BOOLEAN, stderr : BOOLEAN]
    /\ \E k \in 0 .. NumPre :
          /\ files = [f \in PreFiles(k) |-> {}]
          /\ dirExists \in (IF k = 0 THEN BOOLEAN ELSE {TRUE})

AllIdle == \A t \in Threads : pc[t] = "idle"
Ident(h) == <<h.kind, h.call>>
Range(s) == { s[i] : i \in 1 .. Len(s) }

----------------------------------------------------------------------------
(* The host logging facility *)

\* logger.handlers without the [:]: the loop walks the list it is removing
\* from and so visits only every other handler
HandlersCopy_live(n) ==
    [i \in 1 .. ((Len(handlers[n]) + 1) \div 2) |-> Ident(handlers[n][2 * i - 1])]

\* logger.handlers[:], line 95
HandlersCopy(n) == [i \in 1 .. Len(handlers[n]) |-> Ident(handlers[n][i])]

\* a removeHandler that leaves the list as it is
RemoveHandler_keep(hs, id) == hs

\* Logger.removeHandler: drop the handler if it is in the list
RemoveHandler(hs, id) ==
    LET Keep(h) == Ident(h) # id IN SelectSeq(hs, Keep)

\* logging.StreamHandler() without a stream argument, line 99
ConsoleStream == "stderr"

\* what one handler writes for one record: the console handler formats with
\* EnhancedFormatter (format, lines 45-48, _apply_colors, lines 57-61), the
\* file handler with the plain logging.Formatter (lines 128-131)
Written(h) ==
    IF h.kind = "console"
    THEN [sink |-> "console", stream |-> ConsoleStream, ansi |-> h.use_colors]
    ELSE [sink |-> "file", stream |-> h.file, ansi |-> FALSE]

\* the handlers of hs whose open stream still is the directory entry f
WritesTo(hs, f) ==
    \E h \in Range(hs) : h.kind = "file" /\ h.file = f /\ ~h.orphan

\* one accepted record on logger n: every handler, in order, writes it
Emit(n) ==
    /\ nrec < MaxRecords
    /\ nrec' = nrec + 1
    /\ emitted' = [emitted EXCEPT ![n] =
                      [i \in 1 .. Len(handlers[n]) |-> Written(handlers[n][i])]]
    /\ files' = [f \in DOMAIN files |->
                    IF WritesTo(handlers[n], f) THEN files[f] \cup {nrec + 1}
                    ELSE files[f]]
    /\ accepted' = IF \E h \in Range(handlers[n]) : h.kind = "file"
                   THEN accepted \cup {nrec + 1} ELSE accepted
    /\ UNCHANGED <<clock, tty, handlers, dirExists, archives, ncalls, last,
                   chosen, overlap, locals, sanvars>>

\* a log call of the single-threaded program: no setup is in progress
Log(n) == AllIdle /\ Emit(n)

\* a log call of one thread on the logger both threads use, while another
\* thread may be inside configure_logging
LogConc == Emit(Shared)

\* half a second passes
Tick ==
    /\ clock < MaxClock
    /\ clock' = clock + 1
    /\ UNCHANGED <<tty, handlers, dirExists, files, archives, emitted, nrec,
                   accepted, ncalls, last, chosen, overlap, locals, sanvars>>

----------------------------------------------------------------------------
(* configure_logging, lines 85-134 *)

Finished(t, ok) ==
    [last EXCEPT ![name[t]] =
        [call |-> call[t], save |-> save[t], ok |-> ok, seq |-> @.seq + 1]]

\* lines 91-95: look the logger up and copy its handler list
Enter(t, n, s) ==
    /\ pc[t] = "idle"
    /\ ncalls < MaxCalls
    /\ ncalls' = ncalls + 1
    /\ name' = [name EXCEPT ![t] = n]
    /\ save' = [save EXCEPT ![t] = s]
    /\ call' = [call EXCEPT ![t] = ncalls + 1]
    /\ snap' = [snap EXCEPT ![t] = HandlersCopy(n)]
    /\ pc' = [pc EXCEPT ![t] = IF HandlersCopy(n) = <<>> THEN "console" ELSE "remove"]
    /\ new_log_file' = [new_log_file EXCEPT ![t] = NoFile]
    /\ old_logs' = [old_logs EXCEPT ![t] = {}]
    /\ todo' = [todo EXCEPT ![t] = {}]
    /\ archive_name' = [archive_name EXCEPT ![t] = NoFile]
    /\ reported' = [reported EXCEPT ![t] = {}]
    /\ result' = [result EXCEPT ![t] = "running"]
    /\ pre' = [pre EXCEPT ![t] = NoPre]
    /\ emitted' = [emitted EXCEPT ![n] = <<>>]
    /\ overlap' = overlap \cup
                    { {ncalls + 1, call[u]} : u \in { v \in Threads : pc[v] # "idle" } }
    /\ UNCHANGED <<clock, tty, handlers, dirExists, files, archives, nrec,
                   accepted, last, chosen, sanvars>>

\* a call of the single-threaded program
Begin(n, s) == AllIdle /\ Enter(Main, n, s)

\* a call of thread t for the logger name both threads use, whatever the
\* other thread is doing
BeginConc(t, s) == Enter(t, Shared, s)

\* line 96: logger.removeHandler(handler), one handler of the copy
Remove(t) ==
    /\ pc[t] = "remove"
    /\ handlers' = [handlers EXCEPT ![name[t]] = RemoveHandler(@, Head(snap[t]))]
    /\ snap' = [snap EXCEPT ![t] = Tail(@)]
    /\ pc' = [pc EXCEPT ![t] = IF Tail(snap[t]) = <<>> THEN "console" ELSE "remove"]
    /\ UNCHANGED <<clock, tty, dirExists, files, archives, emitted, nrec,
                   accepted, ncalls, last, chosen, overlap, name, save, call,
                   new_log_file, old_logs, todo, archive_name, reported,
                   result, pre, sanvars>>

\* lines 99-107: build the console handler and attach it; line 109 and,
\* with save=False, line 134
AddConsole(t) ==
    /\ pc[t] = "console"
    /\ handlers' = [handlers EXCEPT ![name[t]] = Append(@, ConsoleHandler(call[t]))]
    /\ IF save[t]
       THEN /\ pc' = [pc EXCEPT ![t] = "mkdir"]
            /\ UNCHANGED <<result, last>>
       ELSE /\ pc' = [pc EXCEPT ![t] = "idle"]
            /\ result' = [result EXCEPT ![t] = "ok"]
            /\ last' = Finished(t, TRUE)
    /\ UNCHANGED <<clock, tty, dirExists, files, archives, emitted, nrec,
                   accepted, ncalls, chosen, overlap, name, save, call, snap,
                   new_log_file, old_logs, todo, archive_name, reported, pre,
                   sanvars>>

\* lines 111-116: the directory is made and the new file is named
Mkdir(t) ==
    /\ pc[t] = "mkdir"
    /\ dirExists' = TRUE
    /\ new_log_file' = [new_log_file EXCEPT ![t] = LogName(clock)]
    /\ pc' = [pc EXCEPT ![t] = "glob"]
    /\ UNCHANGED <<clock, tty, handlers, files, archives, emitted, nrec,
                   accepted, ncalls, last, chosen, overlap, name, save, call,
                   snap, old_logs, todo, archive_name, reported, result, pre,
                   sanvars>>

\* line 112 raises: the directory is absent and cannot be made
MkdirFail(t) ==
    /\ pc[t] = "mkdir"
    /\ ~dirExists
    /\ pc' = [pc EXCEPT ![t] = "idle"]
    /\ result' = [result EXCEPT ![t] = "mkdir_error"]
    /\ last' = Finished(t, FALSE)
    /\ UNCHANGED <<clock, tty, handlers, dirExists, files, archives, emitted,
                   nrec, accepted, ncalls, chosen, overlap, name, save, call,
                   snap, new_log_file, old_logs, todo, archive_name, reported,
                   pre, sanvars>>

----------------------------------------------------------------------------
(* archive_old_logs, lines 64-82 *)

\* line 69 without its filter: every *.log file of the directory
OldLogs_all(current_log_file) == DOMAIN files

\* line 69: the *.log files of the directory other than current_log_file
OldLogs(current_log_file) == DOMAIN files \ {current_log_file}

\* lines 69-73: collect the candidates, return if there are none, name the
\* archive
Glob(t) ==
    /\ pc[t] = "glob"
    /\ old_logs' = [old_logs EXCEPT ![t] = OldLogs(new_log_file[t])]
    /\ todo' = [todo EXCEPT ![t] = OldLogs(new_log_file[t])]
    /\ pre' = [pre EXCEPT ![t] = [files |-> DOMAIN files, archives |-> archives]]
    /\ IF OldLogs(new_log_file[t]) = {}
       THEN /\ pc' = [pc EXCEPT ![t] = "open"]
            /\ UNCHANGED archive_name
       ELSE /\ pc' = [pc EXCEPT ![t] = "tar"]
            /\ archive_name' = [archive_name EXCEPT ![t] = ArchiveName(clock)]
    /\ UNCHANGED <<globals, name, save, call, snap, new_log_file, reported,
                   result, sanvars>>

\* the archive file with the members S, replacing any file of that name
Bundle(a, S, done) ==
    [x \in DOMAIN archives \cup {a} |->
        IF x = a
        THEN [entries |-> { [name |-> f, content |-> files[f]] : f \in S },
              complete |-> done]
        ELSE archives[x]]

\* lines 74-76: the with block runs to its end, the archive is closed
Tar(t) ==
    /\ pc[t] = "tar"
    /\ old_logs[t] \subseteq DOMAIN files
    /\ archives' = Bundle(archive_name[t], old_logs[t], TRUE)
    /\ pc' = [pc EXCEPT ![t] = "unlink"]
    /\ UNCHANGED <<clock, tty, handlers, dirExists, files, emitted, nrec,
                   accepted, ncalls, last, chosen, overlap, name, save, call,
                   snap, new_log_file, old_logs, todo, archive_name, reported,
                   result, pre, sanvars>>

\* lines 74-76 raise and the exception is swallowed: the unlink loop runs
TarFail_swallowed(t) ==
    /\ pc[t] = "tar"
    /\ \/ UNCHANGED archives
       \/ archives' = Bundle(archive_name[t], {}, FALSE)
    /\ pc' = [pc EXCEPT ![t] = "unlink"]
    /\ UNCHANGED <<clock, tty, handlers, dirExists, files, emitted, nrec,
                   accepted, ncalls, last, chosen, overlap, name, save, call,
                   snap, new_log_file, old_logs, todo, archive_name, reported,
                   result, pre, sanvars>>

\* lines 74-76 raise: tarfile.open fails and writes nothing, or tar.add
\* fails and leaves a bundle that was never finished (no member of it is
\* taken to be readable); the exception leaves archive_old_logs and
\* configure_logging
TarFail(t) ==
    /\ pc[t] = "tar"
    /\ \/ UNCHANGED archives
       \/ archives' = Bundle(archive_name[t], {}, FALSE)
    /\ pc' = [pc EXCEPT ![t] = "idle"]
    /\ result' = [result EXCEPT ![t] = "archive_error"]
    /\ last' = Finished(t, FALSE)
    /\ UNCHANGED <<clock, tty, handlers, dirExists, files, emitted, nrec,
                   accepted, ncalls, chosen, overlap, name, save, call, snap,
                   new_log_file, old_logs, todo, archive_name, reported, pre,
                   sanvars>>

\* the handler list hs after the directory entry f was removed: a handler
\* that has f open keeps writing to the file that is no longer in the directory
Orphaned(hs, f) ==
    [i \in 1 .. Len(hs) |->
        IF hs[i].kind = "file" /\ hs[i].file = f
        THEN [hs[i] EXCEPT !.orphan = TRUE] ELSE hs[i]]

\* the loop of line 78 visits old_logs in the order glob listed them; the
\* listing is taken to be by timestamp
NextLog(t) == CHOOSE f \in todo[t] : \A g \in todo[t] : f[2] <= g[2]

AfterUnlink(t, f) ==
    /\ todo' = [todo EXCEPT ![t] = @ \ {f}]
    /\ pc' = [pc EXCEPT ![t] = IF todo[t] = {f} THEN "open" ELSE "unlink"]

\* lines 78-80: log_file.unlink() succeeds
Unlink(t) ==
    /\ pc[t] = "unlink"
    /\ NextLog(t) \in DOMAIN files
    /\ LET f == NextLog(t) IN
          /\ files' = [g \in DOMAIN files \ {f} |-> files[g]]
          /\ handlers' = [n \in Loggers |-> Orphaned(handlers[n], f)]
          /\ AfterUnlink(t, f)
    /\ UNCHANGED <<clock, tty, dirExists, archives, emitted, nrec, accepted,
                   ncalls, last, chosen, overlap, name, save, call, snap,
                   new_log_file, old_logs, archive_name, reported, result,
                   pre, sanvars>>

\* lines 80-82 with the error printed and raised again: the call ends
UnlinkFail_raised(t) ==
    /\ pc[t] = "unlink"
    /\ reported' = [reported EXCEPT ![t] = @ \cup {NextLog(t)}]
    /\ pc' = [pc EXCEPT ![t] = "idle"]
    /\ result' = [result EXCEPT ![t] = "unlink_error"]
    /\ last' = Finished(t, FALSE)
    /\ UNCHANGED <<clock, tty, handlers, dirExists, files, archives, emitted,
                   nrec, accepted, ncalls, chosen, overlap, name, save, call,
                   snap, new_log_file, old_logs, todo, archive_name, pre,
                   sanvars>>

\* lines 80-82: log_file.unlink() raises, the error is printed to sys.stderr
\* and the loop goes on
UnlinkFail(t) ==
    /\ pc[t] = "unlink"
    /\ LET f == NextLog(t) IN
          /\ reported' = [reported EXCEPT ![t] = @ \cup {f}]
          /\ AfterUnlink(t, f)
    /\ UNCHANGED <<globals, name, save, call, snap, new_log_file, old_logs,
                   archive_name, result, pre, sanvars>>

\* lines 122-134: TimedRotatingFileHandler opens the file for appending
\* (creating it if absent), the handler is attached, the logger returned
OpenAttach(t) ==
    /\ pc[t] = "open"
    /\ files' = [f \in DOMAIN files \cup {new_log_file[t]} |->
                    IF f \in DOMAIN files THEN files[f] ELSE {}]
    /\ handlers' = [handlers EXCEPT ![name[t]] =
                       Append(@, FileHandler(call[t], new_log_file[t]))]
    /\ chosen' = [chosen EXCEPT ![call[t]] = new_log_file[t]]
    /\ pc' = [pc EXCEPT ![t] = "idle"]
    /\ result' = [result EXCEPT ![t] = "ok"]
    /\ last' = Finished(t, TRUE)
    /\ UNCHANGED <<clock, tty, dirExists, archives, emitted, nrec, accepted,
                   ncalls, overlap, name, save, call, snap, new_log_file,
                   old_logs, todo, archive_name, reported, pre, sanvars>>

----------------------------------------------------------------------------
(* Specifications *)

\* the sanitizer applied to the line
Sanitize ==
    /\ san_pc = "in"
    /\ sanitized' = ProcessSpecialChars(msg)
    /\ san_pc' = "out"
    /\ UNCHANGED <<msg, globals, locals>>

\* the single-threaded program
Next ==
    \/ Tick
    \/ \E n \in Loggers : Log(n)
    \/ \E n \in Loggers, s \in BOOLEAN : Begin(n, s)
    \/ Remove(Main)
    \/ AddConsole(Main)
    \/ Mkdir(Main)
    \/ MkdirFail(Main)
    \/ Glob(Main)
    \/ Tar(Main)
    \/ TarFail(Main)
    \/ Unlink(Main)
    \/ UnlinkFail(Main)
    \/ OpenAttach(Main)

Spec == Init /\ [][Next]_vars

\* two threads, started in a directory without old logs and with the
\* console on a terminal
InitConc ==
    /\ InitCore
    /\ InitSan
    /\ tty = [stdout |-> TRUE, stderr |-> TRUE]
    /\ files = [f \in {} |-> {}]
    /\ dirExists \in BOOLEAN

\* two threads calling configure_logging for one logger name and logging
NextConc ==
    \/ Tick
    \/ LogConc
    \/ \E t \in Threads, s \in BOOLEAN : BeginConc(t, s)
    \/ \E t \in Threads : Remove(t)
    \/ \E t \in Threads : AddConsole(t)
    \/ \E t \in Threads : Mkdir(t)
    \/ \E t \in Threads : MkdirFail(t)
    \/ \E t \in Threads : Glob(t)
    \/ \E t \in Threads : Tar(t)
    \/ \E t \in Threads : TarFail(t)
    \/ \E t \in Threads : Unlink(t)
    \/ \E t \in Threads : UnlinkFail(t)
    \/ \E t \in Threads : OpenAttach(t)

SpecConc == InitConc /\ [][NextConc]_vars

\* the sanitizer on every line of at most MaxLen characters
InitLines ==
    /\ InitCore
    /\ tty = [stdout |-> FALSE, stderr |-> FALSE]
    /\ dirExists = FALSE
    /\ files = [f \in {} |-> {}]
    /\ msg \in Lines
    /\ sanitized = <<>>
    /\ san_pc = "in"

NextSan == Sanitize

SpecSan == InitLines /\ [][NextSan]_vars

----------------------------------------------------------------------------
(* Properties *)

Attached(n) == [i \in 1 .. Len(handlers[n]) |-> Ident(handlers[n][i])]
Quiet(n) == \A t \in Threads : pc[t] = "idle" \/ name[t] # n
Sinks(n) == [i \in 1 .. Len(emitted[n]) |-> emitted[n][i].sink]
Members(a) == { e.name : e \in archives[a].entries }
HasFileSink(t) ==
    \E h \in Range(handlers[name[t]]) : h.kind = "file" /\ h.call = call[t]
Candidates(t) == pre[t].files \ {new_log_file[t]}

\* C1: once the calls on a logger have returned and the latest of them
\* succeeded, the logger holds exactly that call's handlers (the console sink,
\* then the file sink if save was set), and a record logged since was written
\* once by each of them.
C1_LatestHandlersOnly ==
    \A n \in Loggers :
        (Quiet(n) /\ last[n].ok) =>
            /\ Attached(n) =
                 (IF last[n].save
                  THEN << <<"console", last[n].call>>, <<"file", last[n].call>> >>
                  ELSE << <<"console", last[n].call>> >>)
            /\ emitted[n] # <<>> =>
                 Sinks(n) = (IF last[n].save THEN <<"console", "file">>
                             ELSE <<"console">>)

\* a second successful call with save=True on a logger, and a record logged
\* after it
C1_Witness ==
    \E n \in Loggers :
        /\ Quiet(n) /\ last[n].ok /\ last[n].save /\ last[n].seq >= 2
        /\ Len(emitted[n]) = 2

\* C2: after a call with save=True that met no I/O failure: when no other
\* *.log file was in the directory nothing was archived or deleted; otherwise
\* the finished archive logs_archive_<timestamp> holds exactly the other
\* *.log files, none of them is left in the directory, and the new log file
\* is in the directory and not in the archive.
C2_ArchiveOldLogs ==
    \A t \in Threads :
        (pc[t] = "idle" /\ result[t] = "ok" /\ save[t] /\ reported[t] = {}) =>
            IF Candidates(t) = {}
            THEN /\ archives = pre[t].archives
                 /\ pre[t].files \subseteq DOMAIN files
            ELSE /\ archive_name[t] \in DOMAIN archives
                 /\ archive_name[t][1] = "logs_archive"
                 /\ archives[archive_name[t]].complete
                 /\ Members(archive_name[t]) = Candidates(t)
                 /\ Candidates(t) \cap DOMAIN files = {}
                 /\ new_log_file[t] \in DOMAIN files
                 /\ new_log_file[t] \notin Members(archive_name[t])

\* a call that archived and deleted two old log files
C2_Witness ==
    /\ pc[Main] = "idle" /\ result[Main] = "ok" /\ save[Main]
    /\ reported[Main] = {}
    /\ Cardinality(Candidates(Main)) >= 2
    /\ Candidates(Main) \cap DOMAIN files = {}

\* C3: a call whose directory creation failed has left no sink of its own on
\* the logger.
C3_NoSinkAfterMkdirError ==
    \A t \in Threads :
        (pc[t] = "idle" /\ result[t] = "mkdir_error") =>
            \A h \in Range(handlers[name[t]]) : h.call # call[t]

\* C4: a candidate that is gone from the directory is a member of the
\* finished archive of the call; a call whose archive failed has ended, has
\* deleted no candidate and has attached no file sink.
C4_DeleteAfterArchive ==
    \A t \in Threads :
        /\ \A f \in old_logs[t] \ DOMAIN files :
              /\ archive_name[t] \in DOMAIN archives
              /\ archives[archive_name[t]].complete
              /\ f \in Members(archive_name[t])
        /\ result[t] = "archive_error" =>
              /\ pc[t] = "idle"
              /\ old_logs[t] # {}
              /\ old_logs[t] \subseteq DOMAIN files
              /\ ~HasFileSink(t)

\* a call whose archive failed, after an earlier call archived and deleted
\* a log file
C4_Witness ==
    /\ result[Main] = "archive_error"
    /\ \E a \in DOMAIN archives :
          archives[a].complete /\ Members(a) \ DOMAIN files # {}

\* C5: a deletion error is reported for a candidate the loop visited and does
\* not end the call: a call that reported deletion errors and has returned
\* has visited every candidate, succeeded and attached its file sink.
C5_UnlinkErrorCaught ==
    \A t \in Threads :
        /\ reported[t] \subseteq old_logs[t] \ todo[t]
        /\ (pc[t] = "idle" /\ reported[t] # {}) =>
              /\ result[t] = "ok"
              /\ todo[t] = {}
              /\ HasFileSink(t)

\* a returned call that failed to delete one candidate and deleted a later one
C5_Witness ==
    /\ pc[Main] = "idle" /\ result[Main] = "ok"
    /\ \E f \in reported[Main], g \in old_logs[Main] \ reported[Main] :
          f[2] < g[2] /\ g \notin DOMAIN files

\* C6: every line of a console sink goes to standard output, and it carries
\* ANSI codes only if the stream it goes to is a terminal.
C6_ConsoleOnStdout ==
    \A n \in Loggers : \A i \in 1 .. Len(emitted[n]) :
        emitted[n][i].sink = "console" =>
            /\ emitted[n][i].stream = "stdout"
            /\ emitted[n][i].ansi => tty[emitted[n][i].stream]

\* C7: two invocations never open the same log file.
C7_UniqueLogFile ==
    \A c, d \in Calls :
        (c # d /\ chosen[c] # NoFile /\ chosen[d] # NoFile) => chosen[c] # chosen[d]

NonAscii(c) == ~IsAscii(c)
KeptNonAscii(c) == ~IsAscii(c) /\ ~InEmoji(c) /\ c # Arrow
Count(s, c) == Cardinality({ i \in 1 .. Len(s) : s[i] = c })

\* C8: the sanitized line holds no arrow, holds "-->" where the line held
\* one and three ASCII characters for each arrow, holds no emoji if the line
\* held one, keeps the other non-ASCII characters in their order, and is the
\* line itself when the line holds neither arrow nor emoji (so when it is
\* ASCII only).
C8_Sanitized ==
    san_pc = "out" =>
        /\ Arrow \notin Range(sanitized)
        /\ Arrow \in Range(msg) =>
              \E i \in 1 .. Len(sanitized) - 2 : SubSeq(sanitized, i, i + 2) = ArrowText
        /\ Len(SelectSeq(sanitized, IsAscii)) =
              Len(SelectSeq(msg, IsAscii)) + 3 * Count(msg, Arrow)
        /\ (\E c \in Range(msg) : InEmoji(c)) =>
              \A c \in Range(sanitized) : ~InEmoji(c)
        /\ SelectSeq(sanitized, NonAscii) = SelectSeq(msg, KeptNonAscii)
        /\ (\A c \in Range(msg) : c # Arrow /\ ~InEmoji(c)) => sanitized = msg

\* a sanitized line that held two arrows, an emoji between them
C8_Witness ==
    /\ san_pc = "out"
    /\ Count(msg, Arrow) = 2
    /\ \E c \in Range(msg) : InEmoji(c)
    /\ Len(sanitized) = 6

\* C9: handlers of two invocations are on one logger together only if the
\* two invocations were in progress at the same time.
C9_MixedOnlyByOverlap ==
    \A n \in Loggers : \A h, g \in Range(handlers[n]) :
        h.call # g.call => {h.call, g.call} \in overlap

\* both threads have returned and the logger holds the console sinks of both
\* calls
C9_Witness ==
    /\ AllIdle
    /\ \E n \in Loggers : \E h, g \in Range(handlers[n]) :
          h.kind = "console" /\ g.kind = "console" /\ h.call # g.call

\* C10: the file of an attached file sink is never deleted, and every record
\* handed to a file sink is in a log file of the directory or in an archive.
C10_ActiveLogKept ==
    /\ \A n \in Loggers : \A h \in Range(handlers[n]) :
          h.kind = "file" => (~h.orphan /\ h.file \in DOMAIN files)
    /\ \A r \in accepted :
          \/ \E f \in DOMAIN files : r \in files[f]
          \/ \E a \in DOMAIN archives : \E e \in archives[a].entries : r \in e.content

====
